---- MODULE Spec2Model ----
(***************************************************************************)
(* Model of the grid (src/src/map.rs), the directions (src/src/action.rs), *)
(* the lifecycle flag (src/src/environment.rs) and the incremental A*      *)
(* search with its step simulation loop (src/examples/set02.rs).           *)
(***************************************************************************)
EXTENDS Integers, Sequences, FiniteSets, Bags, TLC

VARIABLES
    map,            \* SimulationEnvironment.map: [tiles, width, height]
    robot,          \* SimulationEnvironment.robot: [position]
    goal_position,  \* SimulationEnvironment.goal_position
    astar,          \* SimulationEnvironment.astar: [came_from, cost_so_far, frontier]
    state,          \* SimulationEnvironment.state
    turn_count,     \* SimulationEnvironment.turn_count
    robot_position, \* the start handed to SimulationEnvironment::new
    action,         \* what the last AStar::run returned: a direction, or None
    end_turn,       \* the first turn that ended in state END, 0 while there is none
    ret,            \* the last call of a Map method: [op, pos, out]
    set_calls,      \* how many times set_tile was called
    pops,           \* what the last AStar::run popped: [current, next], NoNode where none
    tie_break,      \* how BinaryHeap::pop chooses among entries of equal cost
    twin            \* a second simulation run beside the first, None if there is none

vars == <<map, robot, goal_position, astar, state, turn_count, robot_position,
          action, end_turn, ret, set_calls, pops, tie_break, twin>>

\* ---------------------------------------------------------------- bounds
MaxWidth == 3
MaxHeight == 2
MaxTurns == 10
MaxSets == 1
\* The width and height of the open grid.
OpenWidth == 5
OpenHeight == 4
\* The ticks followed on the open grid.
OpenTurns == 8

\* ------------------------------------------------------------ IVec2, usize
IVec2(x, y) == [x |-> x, y |-> y]

Add(a, b) == IVec2(a.x + b.x, a.y + b.y)

Abs(i) == IF i < 0 THEN -i ELSE i

\* `i as usize` of an i32 on a 64-bit target: a negative value wraps to at least
\* 2^64 - 2^31, above the length of any vector; the largest integer of the
\* model checker stands for all of them.
AsUsize(i) == IF i < 0 THEN 2147483647 ELSE i

\* ------------------------------------------------------------- action.rs
None == "None"

DirectionAll == <<"Up", "Down", "Left", "Right">>

to_ivec2_swapped(d) ==
    CASE d = "Up" -> IVec2(0, 1)
      [] d = "Down" -> IVec2(0, -1)
      [] d = "Left" -> IVec2(-1, 0)
      [] d = "Right" -> IVec2(1, 0)

to_ivec2(d) ==
    CASE d = "Up" -> IVec2(0, -1)
      [] d = "Down" -> IVec2(0, 1)
      [] d = "Left" -> IVec2(-1, 0)
      [] d = "Right" -> IVec2(1, 0)

\* ---------------------------------------------------------------- map.rs
Tile == {"CLEAN", "DIRTY", "IMPASSABLE", "TARGET"}

TileDefault == "CLEAN"

\* Map::new: height rows of width default tiles.
MapNew(width, height) ==
    [tiles |-> [y \in 1..height |-> [x \in 1..width |-> TileDefault]],
     width |-> width, height |-> height]

\* The characters load_from_file accepts, and the tile each one produces.
LoadChar(c) ==
    CASE c = "C" -> "CLEAN"
      [] c = "W" -> "IMPASSABLE"
      [] c = "T" -> "TARGET"

\* Map::load_from_file on equal-length lines of accepted characters.
MapLoad(lines) ==
    [tiles |-> [y \in 1..Len(lines) |-> [x \in 1..Len(lines[1]) |-> LoadChar(lines[y][x])]],
     width |-> Len(lines[1]), height |-> Len(lines)]

in_bounds(m, pos) ==
    pos.x >= 0 /\ pos.x < m.width /\ pos.y >= 0 /\ pos.y < m.height

\* Vec indexing tiles[y][x] with usize indices: does it stay inside both vectors?
IndexOk(m, y, x) ==
    /\ y < Len(m.tiles)
    /\ x < Len(m.tiles[y + 1])

Panic == [kind |-> "panic"]

Ok(v) == [kind |-> "ok", val |-> v]

get_tile(m, pos) ==
    IF IndexOk(m, AsUsize(pos.y), AsUsize(pos.x))
    THEN Ok(m.tiles[pos.y + 1][pos.x + 1])
    ELSE Panic

set_tile_transposed(m, pos, tile) ==
    IF IndexOk(m, AsUsize(pos.x), AsUsize(pos.y))
    THEN Ok([m EXCEPT !.tiles[pos.x + 1][pos.y + 1] = tile])
    ELSE Panic

set_tile(m, pos, tile) ==
    IF IndexOk(m, AsUsize(pos.y), AsUsize(pos.x))
    THEN Ok([m EXCEPT !.tiles[pos.y + 1][pos.x + 1] = tile])
    ELSE Panic

\* HashMap::insert
Insert(h, k, v) == [c \in (DOMAIN h) \cup {k} |-> IF c = k THEN v ELSE h[c]]

EmptyMap == [c \in {} |-> None]

\* The loop of get_neighbors over Direction::all(), from its i-th direction on.
RECURSIVE neighbors_loop(_, _, _, _)
neighbors_loop(m, pos, i, neighbors) ==
    IF i > Len(DirectionAll) THEN neighbors
    ELSE LET direction == DirectionAll[i]
             neighbor_pos == Add(pos, to_ivec2(direction))
         IN neighbors_loop(m, pos, i + 1,
                IF in_bounds(m, neighbor_pos)
                THEN Insert(neighbors, neighbor_pos,
                        [direction |-> direction,
                         tile |-> m.tiles[neighbor_pos.y + 1][neighbor_pos.x + 1]])
                ELSE neighbors)

get_neighbors_passable(m, pos) ==
    LET all == neighbors_loop(m, pos, 1, EmptyMap)
    IN [c \in {k \in DOMAIN all : all[k].tile # "IMPASSABLE"} |-> all[c]]

get_neighbors(m, pos) == neighbors_loop(m, pos, 1, EmptyMap)

\* ---------------------------------------------------------------- set02.rs
PositionNode(position, cost) == [position |-> position, cost |-> cost]

\* No entry: what a pop that did not happen leaves behind.
NoNode == [popped |-> FALSE]

manhattan_distance(a, b) == Abs(b.x - a.x) + Abs(b.y - a.y)

\* AStar::new
AStarNew(start) ==
    [came_from |-> EmptyMap,
     cost_so_far |-> Insert(EmptyMap, start, 0),
     frontier |-> SetToBag({PositionNode(start, 0)})]

PopChoices_any(frontier) == BagToSet(frontier)

\* BinaryHeap::pop under the reversed ordering on cost: one of the entries of
\* least cost; which one among equal costs is left to the heap.
PopChoices(frontier) ==
    {n \in BagToSet(frontier) : \A o \in BagToSet(frontier) : n.cost <= o.cost}

\* The rules for entries of equal cost: "heap" leaves the choice open, as the
\* BinaryHeap does; the others order the tied entries by their position.
TieRules == {"rows", "columns", "rows_reversed", "columns_reversed"}

Rank(rule, position) ==
    CASE rule = "rows" -> position.y * 64 + position.x
      [] rule = "columns" -> position.x * 64 + position.y
      [] rule = "rows_reversed" -> 0 - (position.y * 64 + position.x)
      [] rule = "columns_reversed" -> 0 - (position.x * 64 + position.y)

\* Among the entries a pop may return, the ones the rule puts first within
\* their own cost.
TieBreak(rule, entries) ==
    IF rule = "heap" THEN entries
    ELSE {n \in entries : \A o \in entries :
            o.cost = n.cost => Rank(rule, n.position) <= Rank(rule, o.position)}

\* BinaryHeap::pop: the entries it may return under the rule in force.
Pop(frontier) == TieBreak(tie_break, PopChoices(frontier))

Push(frontier, n) == frontier (+) SetToBag({n})

Remove_peek(frontier, n) == frontier

Remove(frontier, n) == frontier (-) SetToBag({n})

Relax_always(a, goal, current, neighbor, cost) ==
    [cost_so_far |-> Insert(a.cost_so_far, neighbor, cost),
     frontier |-> Push(a.frontier,
                      PositionNode(neighbor, cost + manhattan_distance(neighbor, goal))),
     came_from |-> Insert(a.came_from, neighbor, current.position)]

Relax_parent_always(a, goal, current, neighbor, cost) ==
    IF neighbor \notin DOMAIN a.cost_so_far \/ cost < a.cost_so_far[neighbor]
    THEN [cost_so_far |-> Insert(a.cost_so_far, neighbor, cost),
          frontier |-> Push(a.frontier,
                           PositionNode(neighbor, cost + manhattan_distance(neighbor, goal))),
          came_from |-> Insert(a.came_from, neighbor, current.position)]
    ELSE [a EXCEPT !.came_from = Insert(a.came_from, neighbor, current.position)]

Relax_no_heuristic(a, goal, current, neighbor, cost) ==
    IF neighbor \notin DOMAIN a.cost_so_far \/ cost < a.cost_so_far[neighbor]
    THEN [cost_so_far |-> Insert(a.cost_so_far, neighbor, cost),
          frontier |-> Push(a.frontier, PositionNode(neighbor, cost)),
          came_from |-> Insert(a.came_from, neighbor, current.position)]
    ELSE a

Relax_or_equal(a, goal, current, neighbor, cost) ==
    IF neighbor \notin DOMAIN a.cost_so_far \/ cost <= a.cost_so_far[neighbor]
    THEN [cost_so_far |-> Insert(a.cost_so_far, neighbor, cost),
          frontier |-> Push(a.frontier,
                           PositionNode(neighbor, cost + manhattan_distance(neighbor, goal))),
          came_from |-> Insert(a.came_from, neighbor, current.position)]
    ELSE a

\* One iteration of the loop over the neighbors of current (lines 66-74).
Relax(a, goal, current, neighbor, cost) ==
    IF neighbor \notin DOMAIN a.cost_so_far \/ cost < a.cost_so_far[neighbor]
    THEN [cost_so_far |-> Insert(a.cost_so_far, neighbor, cost),
          frontier |-> Push(a.frontier,
                           PositionNode(neighbor, cost + manhattan_distance(neighbor, goal))),
          came_from |-> Insert(a.came_from, neighbor, current.position)]
    ELSE a

\* The loop over the neighbors; todo is the set of keys not yet visited. The
\* keys are distinct and all get the same cost, so the order of the HashMap's
\* iteration does not change the result.
RECURSIVE RelaxAll(_, _, _, _, _)
RelaxAll(a, goal, current, todo, cost) ==
    IF todo = {} THEN a
    ELSE LET neighbor == CHOOSE n \in todo : TRUE
         IN RelaxAll(Relax(a, goal, current, neighbor, cost), goal, current,
                     todo \ {neighbor}, cost)

DirectionTo_or_right(neighbors, next) ==
    IF next.position \in DOMAIN neighbors
    THEN neighbors[next.position].direction
    ELSE "Right"

\* neighbors.get(&next.position)?: the direction recorded for next, None if
\* next is no key of neighbors (line 81).
DirectionTo(neighbors, next) ==
    IF next.position \in DOMAIN neighbors
    THEN neighbors[next.position].direction
    ELSE None

RunFrom_no_goal_check(a, m, goal, current) ==
    LET popped == [a EXCEPT !.frontier = Remove(a.frontier, current)]
        cost == popped.cost_so_far[current.position] + 1
        neighbors == get_neighbors(m, current.position)
        expanded == RelaxAll(popped, goal, current, DOMAIN neighbors, cost)
    IN IF BagCardinality(expanded.frontier) # 0
       THEN {[astar |-> [expanded EXCEPT !.frontier = Remove(expanded.frontier, next)],
              ret |-> DirectionTo(neighbors, next),
              current |-> current, next |-> next] :
             next \in Pop(expanded.frontier)}
       ELSE {[astar |-> expanded, ret |-> None, current |-> current, next |-> NoNode]}

\* AStar::run after current was popped: the outcomes [astar, ret], with what
\* was popped.
RunFrom(a, m, goal, current) ==
    LET popped == [a EXCEPT !.frontier = Remove(a.frontier, current)]
    IN IF current.position = goal
       THEN {[astar |-> popped, ret |-> None, current |-> current, next |-> NoNode]}
       ELSE LET cost == popped.cost_so_far[current.position] + 1
                neighbors == get_neighbors(m, current.position)
                expanded == RelaxAll(popped, goal, current, DOMAIN neighbors, cost)
            IN IF BagCardinality(expanded.frontier) # 0
               THEN {[astar |-> [expanded EXCEPT !.frontier = Remove(expanded.frontier, next)],
                      ret |-> DirectionTo(neighbors, next),
                      current |-> current, next |-> next] :
                     next \in Pop(expanded.frontier)}
               ELSE {[astar |-> expanded, ret |-> None, current |-> current, next |-> NoNode]}

\* AStar::run: the outcomes [astar, ret] of one invocation, with what was popped.
AStarRun(a, m, goal) ==
    IF BagCardinality(a.frontier) > 0
    THEN UNION {RunFrom(a, m, goal, current) : current \in Pop(a.frontier)}
    ELSE {[astar |-> a, ret |-> None, current |-> NoNode, next |-> NoNode]}

MoveRobot_up_is_down(r, act) ==
    IF act = None THEN r
    ELSE [r EXCEPT !.position =
            CASE act = "Up" -> Add(r.position, IVec2(0, 1))
              [] act = "Down" -> Add(r.position, IVec2(0, 1))
              [] act = "Left" -> Add(r.position, IVec2(-1, 0))
              [] act = "Right" -> Add(r.position, IVec2(1, 0))]

\* The match on the action (lines 139-147).
MoveRobot(r, act) ==
    IF act = None THEN r
    ELSE [r EXCEPT !.position =
            CASE act = "Up" -> Add(r.position, IVec2(0, -1))
              [] act = "Down" -> Add(r.position, IVec2(0, 1))
              [] act = "Left" -> Add(r.position, IVec2(-1, 0))
              [] act = "Right" -> Add(r.position, IVec2(1, 0))]

EndCheck_stuck(position, goal) == "RUN"

\* The end condition (lines 150-154).
EndCheck(position, goal) == IF position = goal THEN "END" ELSE "RUN"

\* ------------------------------------------------------------ initial states
Coords(width, height) == {IVec2(x, y) : x \in 0..(width - 1), y \in 0..(height - 1)}

\* The cells one step from the goal: the cells whose walls can close it off.
Around(width, height, goal) ==
    {c \in Coords(width, height) : Abs(c.x - goal.x) + Abs(c.y - goal.y) = 1}

\* A loaded map: the goal's cell is the target, the cells of walls impassable.
MapWith(width, height, goal, walls) ==
    MapLoad([y \in 1..height |-> [x \in 1..width |->
        IF IVec2(x - 1, y - 1) = goal THEN "T"
        ELSE IF IVec2(x - 1, y - 1) \in walls THEN "W" ELSE "C"]])

\* SimulationEnvironment::new(m, start, goal)
New(m, start, goal) ==
    /\ map = m
    /\ robot = [position |-> start]
    /\ goal_position = goal
    /\ astar = AStarNew(start)
    /\ turn_count = 0
    /\ state = "START"
    /\ robot_position = start
    /\ action = None
    /\ end_turn = 0
    /\ ret = [op |-> "none"]
    /\ set_calls = 0
    /\ pops = [current |-> NoNode, next |-> NoNode]

\* One simulation, its pops left to the heap.
Init ==
    \E width \in 1..MaxWidth, height \in 1..MaxHeight :
      \E start \in Coords(width, height), goal \in Coords(width, height) :
        \E walls \in SUBSET Around(width, height, goal) :
          /\ New(MapWith(width, height, goal, walls), start, goal)
          /\ tie_break = "heap"
          /\ twin = None

\* One simulation on an open grid wide enough for entries to go stale on the
\* frontier: the robot starts one cell in from the corner, the target is any
\* cell.
InitOpen ==
    \E goal \in Coords(OpenWidth, OpenHeight) :
      /\ New(MapWith(OpenWidth, OpenHeight, goal, {}), IVec2(1, 1), goal)
      /\ tie_break = "heap"
      /\ twin = None

\* SimulationEnvironment::run on the first simulation.
TickRun ==
    /\ turn_count < MaxTurns
    /\ \E out \in AStarRun(astar, map, goal_position) :
         /\ astar' = out.astar
         /\ action' = out.ret
         /\ robot' = MoveRobot(robot, out.ret)
         /\ pops' = [current |-> out.current, next |-> out.next]
    /\ turn_count' = turn_count + 1
    /\ state' = EndCheck(robot'.position, goal_position)
    /\ end_turn' = IF end_turn = 0 /\ state' = "END" THEN turn_count' ELSE end_turn
    /\ UNCHANGED <<map, goal_position, robot_position, ret, set_calls, tie_break>>

\* SimulationEnvironment::run: one tick.
Tick == TickRun /\ UNCHANGED twin

Next == Tick

Spec == Init /\ [][Next]_vars

\* ------------------------------------------------- the grid's own operations
\* The coordinates the grid's methods are called with: the grid's and one
\* ring of coordinates outside it.
Probe(m) == {IVec2(x, y) : x \in (-1)..m.width, y \in (-1)..m.height}

simulation == <<robot, goal_position, astar, state, turn_count, robot_position,
                action, end_turn, pops, tie_break, twin>>

\* A grid from Map::new, before any simulation is built on it.
InitMap ==
    \E width \in 1..MaxWidth, height \in 1..MaxHeight :
      /\ New(MapNew(width, height), IVec2(0, 0), IVec2(0, 0))
      /\ tie_break = "heap"
      /\ twin = None

\* A call of Map::get_tile.
GetTile ==
    \E pos \in Probe(map) :
      /\ ret' = [op |-> "get_tile", pos |-> pos, out |-> get_tile(map, pos)]
      /\ UNCHANGED <<map, set_calls, simulation>>

\* A call of Map::set_tile; a panic leaves the grid as it was.
SetTile ==
    /\ set_calls < MaxSets
    /\ \E pos \in Probe(map), tile \in Tile :
         LET out == set_tile(map, pos, tile)
         IN /\ map' = IF out.kind = "ok" THEN out.val ELSE map
            /\ ret' = [op |-> "set_tile", pos |-> pos, tile |-> tile,
                       out |-> IF out.kind = "ok" THEN Ok("unit") ELSE Panic]
    /\ set_calls' = set_calls + 1
    /\ UNCHANGED simulation

\* A call of Map::get_neighbors.
GetNeighbors ==
    \E pos \in Probe(map) :
      /\ ret' = [op |-> "get_neighbors", pos |-> pos, out |-> Ok(get_neighbors(map, pos))]
      /\ UNCHANGED <<map, set_calls, simulation>>

NextMap == GetTile \/ SetTile \/ GetNeighbors

SpecMap == InitMap /\ [][NextMap]_vars

\* ------------------------------------------------------------ the loop of main
\* The loop of main calls run again and again: the turn counter keeps
\* advancing until the loop's bound.
Loop == turn_count < MaxTurns /\ turn_count' = turn_count + 1

FairSpec == Spec /\ WF_turn_count(Loop)

\* ------------------------------------------------------ two runs side by side
\* A second SimulationEnvironment::new, on the grid m.
TwinNew(m, start) ==
    [map |-> m, robot |-> [position |-> start], astar |-> AStarNew(start),
     state |-> "START", action |-> None]

\* SimulationEnvironment::run on the second simulation.
TwinRun ==
    \E out \in AStarRun(twin.astar, twin.map, goal_position) :
      twin' = [map |-> twin.map,
               astar |-> out.astar,
               action |-> out.ret,
               robot |-> MoveRobot(twin.robot, out.ret),
               state |-> EndCheck(MoveRobot(twin.robot, out.ret).position, goal_position)]

\* One tick of each of the two simulations.
TickBoth == TickRun /\ TwinRun

\* Two simulations of the same grid, start and goal under one tie-break rule.
InitRuns ==
    \E width \in 1..MaxWidth, height \in 1..MaxHeight :
      \E start \in Coords(width, height), goal \in Coords(width, height) :
        \E walls \in SUBSET Around(width, height, goal), rule \in TieRules :
          /\ New(MapWith(width, height, goal, walls), start, goal)
          /\ tie_break = rule
          /\ twin = TwinNew(MapWith(width, height, goal, walls), start)

\* One tick of the simulation on the open grid.
TickOpen == turn_count < OpenTurns /\ Tick

SpecOpen == InitOpen /\ [][TickOpen]_vars

SpecRuns == InitRuns /\ [][TickBoth]_vars

\* The grids of the second simulation: every other cell a wall, walls around
\* the start, no wall, and a grid of default tiles without a target.
TwinMaps(width, height, start, goal) ==
    {MapWith(width, height, goal, walls) :
        walls \in {Coords(width, height) \ {goal},
                   Around(width, height, start) \ {goal},
                   {}}}
    \cup {MapNew(width, height)}

\* Two simulations of the same start and goal under one tie-break rule, on
\* grids of the same width and height with different tiles.
InitGrids ==
    \E width \in 1..MaxWidth, height \in 1..MaxHeight :
      \E start \in Coords(width, height), goal \in Coords(width, height) :
        \E walls \in SUBSET Around(width, height, goal), rule \in TieRules :
          \E other \in TwinMaps(width, height, start, goal) :
            /\ other # MapWith(width, height, goal, walls)
            /\ New(MapWith(width, height, goal, walls), start, goal)
            /\ tie_break = rule
            /\ twin = TwinNew(other, start)

SpecGrids == InitGrids /\ [][TickBoth]_vars

\* ------------------------------------------------------------------ claims
\* The grid's extent and adjacency, stated without the grid's own methods.
InGrid(m, c) == 0 <= c.x /\ c.x < m.width /\ 0 <= c.y /\ c.y < m.height

TileAt(m, c) == m.tiles[c.y + 1][c.x + 1]

Offset(d) ==
    CASE d = "Up" -> [x |-> 0, y |-> -1]
      [] d = "Down" -> [x |-> 0, y |-> 1]
      [] d = "Left" -> [x |-> -1, y |-> 0]
      [] d = "Right" -> [x |-> 1, y |-> 0]

Directions == {"Up", "Down", "Left", "Right"}

OnEdge(m, c) == c.x = 0 \/ c.y = 0 \/ c.x = m.width - 1 \/ c.y = m.height - 1

\* The cells reachable from the cells of S by unit steps onto cells that are
\* not impassable.
Passable(m, c) == InGrid(m, c) /\ TileAt(m, c) # "IMPASSABLE"

StepFrom(m, S) ==
    S \cup {n \in Coords(m.width, m.height) :
              Passable(m, n) /\ \E c \in S : Abs(c.x - n.x) + Abs(c.y - n.y) = 1}

RECURSIVE Reach(_, _)
Reach(m, S) == IF StepFrom(m, S) = S THEN S ELSE Reach(m, StepFrom(m, S))

GoalReachable == Passable(map, robot_position) /\ goal_position \in Reach(map, {robot_position})

WalledOff == Passable(map, robot_position) /\ goal_position \notin Reach(map, {robot_position})

\* C1: with the goal reachable from the start, the simulation has reached END
\* by the time width * height ticks have run.
C1_FinishedWithinArea ==
    (GoalReachable /\ turn_count >= map.width * map.height)
        => (end_turn >= 1 /\ end_turn <= map.width * map.height)

\* C2: on the grid "CCT" with start (0,0) and goal (2,0) the robot is at (0,0)
\* before the first tick, at (1,0) after tick 1 and at (2,0) after tick 2, and
\* END is first reached at tick 2.
IsCCT ==
    /\ map = MapLoad(<< <<"C", "C", "T">> >>)
    /\ robot_position = [x |-> 0, y |-> 0]
    /\ goal_position = [x |-> 2, y |-> 0]

C2_CCTPath ==
    IsCCT =>
        /\ turn_count = 0 => robot.position = [x |-> 0, y |-> 0]
        /\ turn_count = 1 => (robot.position = [x |-> 1, y |-> 0] /\ state = "RUN")
        /\ turn_count = 2 => (robot.position = [x |-> 2, y |-> 0] /\ state = "END")
        /\ turn_count >= 2 => end_turn = 2

\* C3: once the state is END, a further tick changes only the turn counter:
\* the robot, the state and the search state stay as they are.
C3_NoEffectAfterFinished ==
    [][state = "END" => (robot' = robot /\ state' = "END" /\ astar' = astar)]_vars

\* C4: after any number of ticks the robot stands on a cell of the grid that
\* the search has discovered.
C4_RobotOnDiscoveredCell ==
    /\ InGrid(map, robot.position)
    /\ robot.position \in DOMAIN astar.cost_so_far

\* C5: on a grid whose impassable cells separate the goal from the start the
\* state is never END (the claim's second half; its first half, that the
\* search returns no direction from some tick on, is not what fails).
C5_WalledOffNeverFinished == WalledOff => state # "END"

\* C6: the state is START before the first tick; after every tick it is END
\* exactly when the robot stands on the goal and RUN otherwise, so never
\* START again.
C6_Lifecycle ==
    /\ turn_count = 0 => state = "START"
    /\ turn_count > 0 => (state = "END" <=> robot.position = goal_position)
    /\ turn_count > 0 => (state = "RUN" <=> robot.position # goal_position)

C6_Witness == turn_count > 1 /\ state = "END" /\ robot.position # robot_position

\* C7: every tick adds one to the turn counter; a returned direction moves
\* the robot by that direction's unit offset, none leaves it in place; the
\* grid and the goal stay as they are.
C7_TickFrame ==
    [][/\ turn_count' = turn_count + 1
       /\ action' \in Directions =>
            robot'.position = [x |-> robot.position.x + Offset(action').x,
                               y |-> robot.position.y + Offset(action').y]
       /\ action' = None => robot'.position = robot.position
       /\ action' \in Directions \cup {None}
       /\ map' = map
       /\ goal_position' = goal_position]_vars

C7_Witness == turn_count > 1 /\ action = "Up" /\ robot.position # robot_position

C9_OutOfBoundsFails ==
    [][(ret'.op # "none" /\ ~InGrid(map, ret'.pos))
          => (ret'.out.kind = "panic" /\ map' = map)]_vars

\* C10: on a coordinate c of the grid get_tile succeeds; set_tile(c, v)
\* succeeds, after it get_tile(c) returns v, get_tile of every other
\* coordinate of the grid returns what it did, and width and height are the
\* same.
C10_SetGetRoundTrip ==
    [][/\ \A c \in Coords(map.width, map.height) :
            get_tile(map, c) = Ok(TileAt(map, c))
       /\ (ret'.op = "set_tile" /\ InGrid(map, ret'.pos)) =>
            /\ ret'.out.kind = "ok"
            /\ get_tile(map', ret'.pos) = Ok(ret'.tile)
            /\ \A c \in Coords(map.width, map.height) \ {ret'.pos} :
                 get_tile(map', c) = get_tile(map, c)
            /\ map'.width = map.width
            /\ map'.height = map.height]_vars

C10_Witness ==
    /\ ret.op = "set_tile"
    /\ InGrid(map, ret.pos)
    /\ ret.tile = "IMPASSABLE"
    /\ ret.pos.x # ret.pos.y
    /\ get_tile(map, ret.pos) = Ok("IMPASSABLE")

TieBroken ==
    /\ pops.next # NoNode
    /\ \E e \in BagToSet(astar.frontier) : e.cost = pops.next.cost

GridNeighbors(m, c) ==
    {p \in Coords(m.width, m.height) : Abs(p.x - c.x) + Abs(p.y - c.y) = 1}

\* C12: on two grids of the same width and height with different tiles, with
\* the same start, goal and tie-break rule, the search state, the returned
\* direction and the robot position are the same after every tick; every
\* cell next to an expanded cell has a cost recorded, whatever its tile.
C12_TilesIgnored ==
    /\ twin.astar = astar
    /\ twin.action = action
    /\ twin.robot.position = robot.position
    /\ (pops.current # NoNode /\ pops.current.position # goal_position) =>
          \A n \in GridNeighbors(map, pops.current.position) :
             n \in DOMAIN astar.cost_so_far

\* An impassable cell was popped as next, a direction returned for it, and it
\* carries a cost; the other grid has another tile there.
C12_Witness ==
    /\ pops.next # NoNode
    /\ action \in Directions
    /\ TileAt(map, pops.next.position) = "IMPASSABLE"
    /\ TileAt(twin.map, pops.next.position) # "IMPASSABLE"
    /\ pops.next.position \in DOMAIN astar.cost_so_far
    /\ twin.robot.position = robot.position
    /\ \E e \in BagToSet(astar.frontier) : TileAt(twin.map, e.position) = "IMPASSABLE"

Drained == BagCardinality(astar.frontier) = 0

\* C13: with the loop of main calling run again and again, the frontier is
\* empty from some tick on for ever, and every tick on an empty frontier
\* returns no direction and leaves the search state and the robot as they are.
C13_SearchExhausts ==
    /\ <>[]Drained
    /\ [][Drained => (/\ action' = None
                       /\ astar' = astar
                       /\ robot' = robot
                       /\ pops' = [current |-> NoNode, next |-> NoNode])]_vars

\* The search ran for some ticks, ran dry, and was invoked again.
C13_Witness ==
    /\ Drained
    /\ turn_count > 3
    /\ pops.current = NoNode
    /\ DOMAIN astar.came_from # {}
    /\ robot.position # robot_position

\* C14: when the invocation returns a direction d, the entry popped second
\* lies at the first-popped entry's coordinate plus d's unit offset; when the
\* entry popped second is no neighbour of the first in the grid, the
\* invocation returns no direction.
C14_DirectionLeadsToNext ==
    /\ action \in Directions =>
          /\ pops.current # NoNode
          /\ pops.next # NoNode
          /\ pops.next.position =
                [x |-> pops.current.position.x + Offset(action).x,
                 y |-> pops.current.position.y + Offset(action).y]
    /\ (pops.next # NoNode
          /\ pops.next.position \notin GridNeighbors(map, pops.current.position))
         => action = None

\* The entry popped second was left on the frontier by an earlier tick and is
\* no neighbour of the entry expanded in this one.
C14_Witness ==
    /\ turn_count > 1
    /\ pops.next # NoNode
    /\ pops.next.position \notin GridNeighbors(map, pops.current.position)
    /\ action = None

\* The entries an invocation popped, as a bag.
PoppedBag(p) ==
    (IF p.current # NoNode THEN SetToBag({p.current}) ELSE EmptyBag)
    (+) (IF p.next # NoNode THEN SetToBag({p.next}) ELSE EmptyBag)

\* The neighbours of c whose cost the expansion of c improves.
Improved(a, m, c) ==
    {n \in GridNeighbors(m, c) :
        \/ n \notin DOMAIN a.cost_so_far
        \/ a.cost_so_far[n] > a.cost_so_far[c] + 1}

C16_GoalPopped ==
    [][(pops'.current # NoNode /\ pops'.current.position = goal_position) =>
        /\ action' = None
        /\ pops'.next = NoNode
        /\ astar'.cost_so_far = astar.cost_so_far
        /\ astar'.came_from = astar.came_from
        /\ pops'.current \in BagToSet(astar.frontier)
        /\ \A n \in BagToSet(astar.frontier) :
              pops'.current.cost <= n.cost
        /\ astar'.frontier (+) SetToBag({pops'.current}) = astar.frontier
      ]_vars

\* The goal entry, left on the frontier by an earlier tick, was popped first
\* while other entries stay on the frontier.
C16_Witness ==
    /\ pops.current # NoNode
    /\ pops.current.position = goal_position
    /\ pops.next = NoNode
    /\ action = None
    /\ BagCardinality(astar.frontier) > 0
    /\ turn_count > 1

\* The Manhattan distance from c to the goal.
ToGoal(c) == Abs(c.x - goal_position.x) + Abs(c.y - goal_position.y)

\* The entry's coordinate is in the grid and has a cost, and the entry's
\* priority is at least that cost plus the Manhattan distance to the goal.
CostPlusHeuristic(n) ==
    /\ InGrid(map, n.position)
    /\ n.position \in DOMAIN astar.cost_so_far
    /\ n.cost >= astar.cost_so_far[n.position] + ToGoal(n.position)

\* The statement of C17 as written: it holds of every frontier entry of every
\* reachable state, the state AStar::new creates included.
C17_Original ==
    \A n \in BagToSet(astar.frontier) : CostPlusHeuristic(n)

\* C17: every frontier entry other than the start's entry pushed by AStar::new
\* refers to a coordinate in the grid that has a cost, with a priority of at
\* least that cost plus the Manhattan distance to the goal; the start's entry
\* pushed by AStar::new is in the grid, has cost 0 and priority 0.
C17_PriorityIsCostPlusHeuristic ==
    \A n \in BagToSet(astar.frontier) :
      IF turn_count = 0
      THEN /\ n = PositionNode(robot_position, 0)
           /\ InGrid(map, n.position)
           /\ n.position \in DOMAIN astar.cost_so_far
           /\ astar.cost_so_far[n.position] = 0
      ELSE CostPlusHeuristic(n)

\* A frontier entry whose priority is strictly above its coordinate's cost
\* plus the heuristic, next to one whose priority equals it.
C17_Witness ==
    /\ turn_count > 0
    /\ \E n, k \in BagToSet(astar.frontier) :
          /\ n.cost > astar.cost_so_far[n.position] + ToGoal(n.position)
          /\ k.cost = astar.cost_so_far[k.position] + ToGoal(k.position)

\* C18: a state is reachable in which the frontier holds two entries for the
\* same coordinate (C18_Witness); and whenever it does, the entries come from
\* strict improvements of the coordinate's cost: each entry is on the frontier
\* once, and the entry of larger priority is above the coordinate's cost plus
\* the heuristic.
C18_DuplicatesAreStale ==
    \A n, k \in BagToSet(astar.frontier) :
      n.position = k.position =>
        /\ CopiesIn(n, astar.frontier) = 1
        /\ n.cost < k.cost =>
             k.cost > astar.cost_so_far[k.position] + ToGoal(k.position)

\* Two frontier entries for the same coordinate at the same time.
C18_Witness ==
    \E n, k \in BagToSet(astar.frontier) :
      /\ n.position = k.position
      /\ n.cost < k.cost
      /\ n.cost = astar.cost_so_far[n.position] + ToGoal(n.position)

\* C19: the start has cost 0 and no parent; the coordinates with a parent are
\* the coordinates with a cost other than the start; and every parent is a
\* coordinate of the grid one orthogonal step away that has a cost, at least
\* one below the cost of its child.
C19_ParentTree ==
    /\ robot_position \in DOMAIN astar.cost_so_far
    /\ astar.cost_so_far[robot_position] = 0
    /\ robot_position \notin DOMAIN astar.came_from
    /\ DOMAIN astar.came_from = DOMAIN astar.cost_so_far \ {robot_position}
    /\ \A c \in DOMAIN astar.came_from :
          LET parent == astar.came_from[c]
          IN /\ InGrid(map, parent)
             /\ Abs(parent.x - c.x) + Abs(parent.y - c.y) = 1
             /\ parent \in DOMAIN astar.cost_so_far
             /\ astar.cost_so_far[c] >= astar.cost_so_far[parent] + 1

\* A coordinate two steps down the parent chain that was given a new parent
\* at an improved cost: an entry of its earlier cost is still on the frontier.
C19_Witness ==
    \E c \in DOMAIN astar.came_from :
      /\ astar.came_from[c] \in DOMAIN astar.came_from
      /\ astar.cost_so_far[c] = astar.cost_so_far[astar.came_from[c]] + 1
      /\ \E n \in BagToSet(astar.frontier) :
            /\ n.position = c
            /\ n.cost > astar.cost_so_far[c] + ToGoal(c)

\* C20: a recorded cost is never removed and never increases from one
\* invocation to the next, and it is always at least the Manhattan distance
\* from the start to its coordinate.
C20_CostsOnlyImprove ==
    /\ [](\A c \in DOMAIN astar.cost_so_far :
            astar.cost_so_far[c] >=
              Abs(c.x - robot_position.x) + Abs(c.y - robot_position.y))
    /\ [][\A c \in DOMAIN astar.cost_so_far :
            /\ c \in DOMAIN astar'.cost_so_far
            /\ astar'.cost_so_far[c] <= astar.cost_so_far[c]]_vars

\* A coordinate whose cost was improved to the Manhattan distance from the
\* start while an entry of its earlier, larger cost is still on the frontier.
C20_Witness ==
    \E n \in BagToSet(astar.frontier) :
      /\ n.cost - ToGoal(n.position) > astar.cost_so_far[n.position]
      /\ astar.cost_so_far[n.position] = Abs(n.position.x - robot_position.x)
                                           + Abs(n.position.y - robot_position.y)

====
